---- MODULE Spec2Model ----
(***************************************************************************)
(* Model of the serialized-mutation queue of tg_load: the Preference       *)
(* (chat-ID set) and FeatureState (flag map) resources, their per-resource *)
(* worker coroutine, the snapshot writers and the command handlers that    *)
(* use them.  All coroutines run on one asyncio event loop: a coroutine    *)
(* keeps the thread until it reaches an await that really suspends.        *)
(***************************************************************************)
EXTENDS Integers, Sequences, FiniteSets, Bags, TLC

\* ---------------------------------------------------------------- bounds
\* number of tasks the free callers of Spec enqueue over one run
MaxTasks == 2
\* chat / user ids are 1..MaxItem
MaxItem == 1
\* number of concurrent command handlers
NumHandlers == 2
\* number of arguments of an /enable_features or /disable_features command
MaxArgs == 1
\* number of storage errors (OSError, upload error) injected over one run
MaxFaults == 1
\* number of action invocations of one heartbeat while what it watches goes on
MaxBeats == 2
\* number of Instagram links in one message
MaxLinks == 2
\* number of chats in config["logging_chat_ids"]
NumLoggingChats == 2

Items == 1..MaxItem
\* a command handler enqueues at most one mutation and one backup
\* a fatal Instagram link enqueues one mutation and one backup
MaxIds == IF MaxTasks + 2 * MaxLinks > 2 * NumHandlers THEN MaxTasks + 2 * MaxLinks
          ELSE 2 * NumHandlers
TaskIds == 1..MaxIds

\* ------------------------------------------------------------- resources
Prefs == {"active_chat_ids"}
Flags == {"feature_state"}
Res == Prefs \cup Flags

\* keys of FeatureState.features, in the order json.dump(sort_keys = True) emits them
FeatureKeys == <<"inst", "yt", "yt_shorts", "ytm">>
Features == {FeatureKeys[i] : i \in 1..Len(FeatureKeys)}
\* the flags the callers of this model change
SetKeys == {"inst"}

DefaultFeatures == [k \in Features |-> TRUE]

NoFile == <<"<absent>">>
NoTask == [id |-> 0, kind |-> "none", item |-> 0, key |-> "", val |-> FALSE, text |-> <<>>]

\* ---------------------------------------------------------- serialization
RECURSIVE SortedSeq(_)
SortedSeq(S) ==
    IF S = {} THEN <<>>
    ELSE LET m == CHOOSE x \in S : \A y \in S : x <= y
         IN <<ToString(m)>> \o SortedSeq(S \ {m})

\* str(self.set): "set()" for the empty set, "{1, 2}" otherwise
StrSet(S) == IF S = {} THEN <<"set()">> ELSE <<"{">> \o SortedSeq(S) \o <<"}">>

\* a dump that writes Python's repr of a bool instead of the JSON literal
BoolTokRepr(b) == IF b THEN "True" ELSE "False"

\* json.dump of a bool
BoolTok(b) == IF b THEN "true" ELSE "false"

RECURSIVE DumpPairs(_, _)
DumpPairs(f, i) ==
    IF i > Len(FeatureKeys) THEN <<>>
    ELSE (IF FeatureKeys[i] \in DOMAIN f
          THEN <<FeatureKeys[i], BoolTok(f[FeatureKeys[i]])>> ELSE <<>>)
         \o DumpPairs(f, i + 1)

\* json.dump(content, file, indent = 4, sort_keys = True)
JsonDump(f) == <<"{">> \o DumpPairs(f, 1) \o <<"}">>

\* the snapshot text of state s of resource r
Serialize(r, s) == IF r \in Prefs THEN StrSet(s) ELSE JsonDump(s)

Prefixes(s) == {SubSeq(s, 1, n) : n \in 0..Len(s)}

VARIABLES
    bucket,     \* globals.BUCKET is configured (remote blob store) or None (local files)
    mem,        \* Preference.set / FeatureState.features of each resource
    queue,      \* the asyncio.Queue of each resource: (task_coro, done_future) pairs
    wpc,        \* control point of each resource's worker task
    cur,        \* the (task_coro, done_future) the worker has taken from the queue
    fut,        \* state of the future of every task
    disk,       \* content of the destination file / blob of each resource
    tmp,        \* content of the temporary file of async_dump
    loop,       \* which coroutine holds the event-loop thread
    nextId,     \* number of tasks created so far, plus one
    torn,       \* the resource object was finalized (__del__ ran)
    crashed,    \* the process died
    faults,     \* number of errors (storage, process start, heartbeat) injected so far
    lastRun,    \* the task each worker ran last (the counter embedded in the task is its id)
    inflight,   \* ids taken from each queue whose future the worker has not resolved yet
    lastSet,    \* the set task last applied to each flag
    wprev,      \* destination content when the running write began
    handlers,   \* the command handlers that are suspended at an await: a bag of their locals
    started,    \* number of command handlers started so far
    lpc,        \* life of each resource object: "live", "stored" (gone, snapshot left), "built", "raised"
    lsrc,       \* where the snapshot a resource is constructed from came from
    jpc,        \* control point of download_yt_and_reply
    jtype,      \* its `type` argument
    try_count,  \* its local try_count
    worth_trying, \* its local worth_trying
    exitcode,   \* its local exitcode
    procs,      \* the worker processes it has started, oldest first
    hb,         \* state of reply_chat_action_task, the heartbeat of the current attempt
    exc,        \* the exception in flight in download_yt_and_reply
    jout,       \* the messages download_yt_and_reply has sent, oldest first
    dir,        \* the working directory `target` of the job exists
    hbn,        \* number of times the current heartbeat has invoked its action
    rtask,      \* state of reply_yt_task
    mpc,        \* control point of handle_message / download_post_and_reply
    mlinks,     \* number of Instagram links of the message not yet handled
    minst,      \* the local download_inst of handle_message
    mfut,       \* the future the message handler awaits
    mexc,       \* the reply in `except AbortDownloadException` raised: re-raised after finally
    mfatal,     \* number of AbortDownloadException raised so far
    mnotes,     \* number of feature-disabled broadcasts completed, per kind of recipient
    bset,       \* Preference.set when the iterator of send_to_active_chats was created
    bseen,      \* the chats that iterator has yielded
    banned,     \* banned_user_ids.set
    bq,         \* the tasks put on the queue of banned_user_ids and not run yet
    dl,         \* check_message called handle_message for the last message it handled
    wtoken,     \* the environment has WEBHOOK_SECRET_TOKEN
    wres        \* the last request to /webhook: the secret header read, the response, the dispatch

vars == <<bucket, mem, queue, wpc, cur, fut, disk, tmp, loop, nextId, torn, crashed, faults,
          lastRun, inflight, lastSet, wprev, handlers, started,
          lpc, lsrc, jpc, jtype, try_count, worth_trying, exitcode, procs, hb, exc, jout,
          dir, hbn, rtask, mpc, mlinks, minst, mfut, mexc, mfatal, mnotes, bset, bseen,
          banned, bq, dl, wtoken, wres>>

hvars == <<handlers, started>>
auxvars == <<lastRun, inflight, lastSet, wprev>>
lvars == <<lpc, lsrc>>
jvars == <<jpc, jtype, try_count, worth_trying, exitcode, procs, hb, exc, jout, dir, hbn, rtask>>
mvars == <<mpc, mlinks, minst, mfut, mexc, mfatal, mnotes, bset, bseen>>
xvars == <<banned, bq, dl, wtoken, wres>>

\* the task last run / last applied, as far as the properties below read it
NoRun == [id |-> 0, kind |-> "none"]
NoSet == [id |-> 0, val |-> FALSE]

\* ------------------------------------------------------------ load-on-init
ItemOfTok(tok) == CHOOSE i \in Items : ToString(i) = tok
IsItemTok(tok) == \E i \in Items : ToString(i) = tok

\* ast.literal_eval(file_str) of Preference.__import_from_backup
LiteralEval(text) ==
    IF text = <<"set()">> THEN [ok |-> TRUE, val |-> {}]
    ELSE IF /\ Len(text) >= 3
            /\ text[1] = "{"
            /\ text[Len(text)] = "}"
            /\ \A i \in 2..(Len(text) - 1) : IsItemTok(text[i])
         THEN [ok |-> TRUE, val |-> {ItemOfTok(text[i]) : i \in 2..(Len(text) - 1)}]
         ELSE [ok |-> FALSE, val |-> {}]

\* Preference.__init__: self.set = set(), then __import_from_backup()
PrefImport(file) ==
    IF file = NoFile THEN {}
    ELSE IF LiteralEval(file).ok THEN LiteralEval(file).val ELSE {}

\* json.load of FeatureState.__import_from_backup: the (key, value) pairs of the object
JsonLoad(text) ==
    IF /\ Len(text) >= 2
       /\ text[1] = "{"
       /\ text[Len(text)] = "}"
       /\ (Len(text) - 2) % 2 = 0
    THEN [ok |-> TRUE,
          pairs |-> [i \in 1..((Len(text) - 2) \div 2) |-> <<text[2 * i], text[2 * i + 1]>>]]
    ELSE [ok |-> FALSE, pairs |-> <<>>]

\* FeatureState.__update_from_dict: stops at the first non-boolean value of a known key
RECURSIVE UpdateFromDict(_, _)
UpdateFromDict(f, pairs) ==
    IF pairs = <<>> THEN f
    ELSE LET k == Head(pairs)[1]
             v == Head(pairs)[2]
         IN IF k \in DOMAIN f
            THEN IF v \in {"true", "false"}
                 THEN UpdateFromDict([f EXCEPT ![k] = (v = "true")], Tail(pairs))
                 ELSE f
            ELSE UpdateFromDict(f, Tail(pairs))

\* a load that takes every pair of the object, unknown keys included (dict.update)
FlagsImportKeepsUnknown(file) ==
    IF file = NoFile \/ ~JsonLoad(file).ok THEN DefaultFeatures
    ELSE LET ps == JsonLoad(file).pairs
         IN [k \in Features \cup {ps[i][1] : i \in 1..Len(ps)} |->
               IF \E i \in 1..Len(ps) : ps[i][1] = k
               THEN ps[CHOOSE i \in 1..Len(ps) : ps[i][1] = k][2] = "true"
               ELSE TRUE]

\* FeatureState.__init__: features all True, then __import_from_backup()
FlagsImport(file) ==
    IF file = NoFile THEN DefaultFeatures
    ELSE IF JsonLoad(file).ok THEN UpdateFromDict(DefaultFeatures, JsonLoad(file).pairs)
         ELSE DefaultFeatures

\* ------------------------------------------------------------------ Init
\* snapshots a previous run has left behind
PriorPrefFile == StrSet({1})
\* the flag snapshot was written by a release with one more feature, "reels"
PriorFlagFile ==
    <<"{", "inst", "false", "reels", "true", "yt", "true", "yt_shorts", "true", "ytm", "true", "}">>

\* a constructor that starts the worker itself: the consumer waits on the empty queue
InitQueuesEager ==
    /\ queue = [r \in Res |-> <<>>]
    /\ wpc = [r \in Res |-> "wait"]
    /\ cur = [r \in Res |-> NoTask]
    /\ fut = [t \in TaskIds |-> "none"]
    /\ tmp = [r \in Res |-> NoFile]
    /\ loop = "idle"
    /\ nextId = 1
    /\ torn = [r \in Res |-> FALSE]
    /\ crashed = FALSE
    /\ faults = 0
    /\ lastRun = [r \in Res |-> NoRun]
    /\ inflight = [r \in Res |-> {}]
    /\ lastSet = [k \in Features |-> NoSet]
    /\ wprev = [r \in Res |-> NoFile]
    /\ handlers = EmptyBag
    /\ started = 0

\* nothing was enqueued yet: no worker task, no future, no handler
InitQueues ==
    /\ queue = [r \in Res |-> <<>>]
    /\ wpc = [r \in Res |-> "none"]
    /\ cur = [r \in Res |-> NoTask]
    /\ fut = [t \in TaskIds |-> "none"]
    /\ tmp = [r \in Res |-> NoFile]
    /\ loop = "idle"
    /\ nextId = 1
    /\ torn = [r \in Res |-> FALSE]
    /\ crashed = FALSE
    /\ faults = 0
    /\ lastRun = [r \in Res |-> NoRun]
    /\ inflight = [r \in Res |-> {}]
    /\ lastSet = [k \in Features |-> NoSet]
    /\ wprev = [r \in Res |-> NoFile]
    /\ handlers = EmptyBag
    /\ started = 0

\* no download job was started
InitJobs ==
    /\ jpc = "none"
    /\ jtype = "none"
    /\ try_count = 0
    /\ worth_trying = FALSE
    /\ exitcode = 1
    /\ procs = <<>>
    /\ hb = "none"
    /\ exc = "none"
    /\ jout = <<>>
    /\ dir = FALSE
    /\ hbn = 0
    /\ rtask = "none"

\* no message with links was received
InitMsgs ==
    /\ mpc = "none"
    /\ mlinks = 0
    /\ minst = FALSE
    /\ mfut = 0
    /\ mexc = FALSE
    /\ mfatal = 0
    /\ mnotes = [active |-> 0, logging |-> 0]
    /\ bset = {}
    /\ bseen = {}

\* nobody is banned, no message and no webhook request was received; the deployment polls,
\* or its webhook has no secret token
InitUpdates ==
    /\ banned = {}
    /\ bq = <<>>
    /\ dl = FALSE
    /\ wres = [hdr |-> "none", status |-> 0, processed |-> FALSE]

\* where a snapshot comes from: nowhere, a backup of the state `state`, or somewhere else
NoSrc == [from |-> "none", state |-> {}]

Init ==
    /\ bucket \in BOOLEAN
    /\ \E firstRun \in BOOLEAN :
         disk = [r \in Res |-> IF firstRun THEN NoFile
                                ELSE IF r \in Prefs THEN PriorPrefFile ELSE PriorFlagFile]
    /\ mem = [r \in Res |-> IF r \in Prefs THEN PrefImport(disk[r]) ELSE FlagsImport(disk[r])]
    /\ lpc = [r \in Res |-> "built"]
    /\ lsrc = [r \in Res |-> NoSrc]
    /\ InitQueues
    /\ InitJobs
    /\ InitMsgs
    /\ InitUpdates
    /\ wtoken = FALSE

\* ------------------------------------------------------------- enqueueing
Running == ~crashed /\ loop = "idle"

\* __ensure_worker followed by Queue.put: a first call creates the worker task,
\* a put on an empty queue wakes the worker suspended in Queue.get
WpcAfterPut(w) == IF w \in {"none", "wait"} THEN "get" ELSE w

\* str(self.set) is an argument of async_write: evaluated when backup() is called
BackupText(r) == IF r \in Prefs THEN StrSet(mem[r]) ELSE <<>>

\* the body shared by add / discard / set / backup: __ensure_worker, put the pair
Enqueue(r, kind, item, key, val) ==
    /\ nextId <= MaxIds
    /\ ~torn[r]
    /\ LET t == [id |-> nextId, kind |-> kind, item |-> item, key |-> key, val |-> val,
                 text |-> IF kind = "backup" THEN BackupText(r) ELSE <<>>]
       IN queue' = [queue EXCEPT ![r] = Append(@, t)]
    /\ wpc' = [wpc EXCEPT ![r] = WpcAfterPut(@)]
    /\ nextId' = nextId + 1

\* add / discard / set / backup: create the future, enqueue, return the future
Put(r, kind, item, key, val) ==
    /\ Enqueue(r, kind, item, key, val)
    /\ fut' = [fut EXCEPT ![nextId] = "pending"]

\* a handler gives up its reference to future t: the object goes away unless the pair in
\* the queue still refers to it
Released(f, t) == IF f[t] = "pending" THEN f ELSE [f EXCEPT ![t] = "none"]

\* `future = await <resource>.backup()` in a handler whose `future` held the future `old`:
\* the rebinding gives up the old future
PutAfter(old, r, kind, item, key, val) ==
    /\ Enqueue(r, kind, item, key, val)
    /\ fut' = [Released(fut, old) EXCEPT ![nextId] = "pending"]

\* a handler ends or goes on without the future it awaited
Drop(t) == fut' = Released(fut, t)

PutFrame == UNCHANGED <<bucket, mem, cur, disk, tmp, loop, torn, crashed, faults>>
            /\ UNCHANGED auxvars /\ UNCHANGED lvars /\ UNCHANGED mvars /\ UNCHANGED xvars /\ UNCHANGED jvars

Add(r, item) ==
    /\ Running /\ nextId <= MaxTasks /\ r \in Prefs
    /\ Put(r, "add", item, "", FALSE)
    /\ PutFrame /\ UNCHANGED hvars

Discard(r, item) ==
    /\ Running /\ nextId <= MaxTasks /\ r \in Prefs
    /\ Put(r, "discard", item, "", FALSE)
    /\ PutFrame /\ UNCHANGED hvars

Set(r, key, val) ==
    /\ Running /\ nextId <= MaxTasks /\ r \in Flags
    /\ Put(r, "set", 0, key, val)
    /\ PutFrame /\ UNCHANGED hvars

Backup(r) ==
    /\ Running /\ nextId <= MaxTasks
    /\ Put(r, "backup", 0, "", FALSE)
    /\ PutFrame /\ UNCHANGED hvars

\* a caller cancels the future it was given (future.cancel(), or the task awaiting it is cancelled)
CancelHandle(t) ==
    /\ Running
    /\ fut[t] = "pending"
    /\ fut' = [fut EXCEPT ![t] = "cancelled"]
    /\ UNCHANGED <<bucket, mem, queue, wpc, cur, disk, tmp, loop, nextId, torn, crashed, faults>>
    /\ UNCHANGED auxvars /\ UNCHANGED hvars /\ UNCHANGED lvars /\ UNCHANGED mvars /\ UNCHANGED xvars /\ UNCHANGED jvars

\* __del__: cancel the worker task if there is one
Teardown(r) ==
    /\ Running
    /\ ~torn[r]
    /\ torn' = [torn EXCEPT ![r] = TRUE]
    /\ wpc' = [wpc EXCEPT ![r] = IF @ \in {"get", "wait"} THEN "cancelling" ELSE @]
    /\ UNCHANGED <<bucket, mem, queue, cur, fut, disk, tmp, loop, nextId, crashed, faults>>
    /\ UNCHANGED auxvars /\ UNCHANGED hvars /\ UNCHANGED lvars /\ UNCHANGED mvars /\ UNCHANGED xvars /\ UNCHANGED jvars

\* ----------------------------------------------------------------- worker
\* a queue that hands out the newest pair first
QueueGetNewest(q) == [task |-> q[Len(q)], rest |-> SubSeq(q, 1, Len(q) - 1)]

\* `await task_queue.get()` on a non-empty asyncio.Queue: the oldest pair
QueueGet(q) == [task |-> Head(q), rest |-> Tail(q)]

\* a worker that takes the next pair before it has resolved the future of the previous one
MayGetEarly(r) == wpc[r] \in {"get", "ok", "err"}

\* the worker is at `await task_queue.get()`: the previous iteration is over
MayGet(r) == wpc[r] = "get"

WFrame == UNCHANGED <<bucket, nextId, torn, crashed>> /\ UNCHANGED hvars
          /\ UNCHANGED lvars /\ UNCHANGED mvars /\ UNCHANGED xvars /\ UNCHANGED jvars

\* a storage call either succeeds or, while errors are left to inject, raises
NoFault == UNCHANGED faults
Fault == faults < MaxFaults /\ faults' = faults + 1

\* worker line `task_coro, done_future = await task_queue.get()`
WorkerGet(r) ==
    /\ ~crashed
    /\ loop \in {"idle", r}
    /\ MayGet(r)
    /\ IF queue[r] = <<>>
       THEN /\ wpc' = [wpc EXCEPT ![r] = "wait"]
            /\ loop' = "idle"
            /\ UNCHANGED <<queue, cur, inflight>>
       ELSE /\ cur' = [cur EXCEPT ![r] = QueueGet(queue[r]).task]
            /\ queue' = [queue EXCEPT ![r] = QueueGet(queue[r]).rest]
            /\ inflight' = [inflight EXCEPT ![r] = @ \cup {QueueGet(queue[r]).task.id}]
            /\ wpc' = [wpc EXCEPT ![r] = "run"]
            /\ loop' = r
    /\ UNCHANGED <<mem, fut, disk, tmp, faults, lastRun, lastSet, wprev>>
    /\ WFrame

\* the CancelledError of __del__'s cancel() reaches the worker at its await
WorkerCancelled(r) ==
    /\ Running
    /\ wpc[r] = "cancelling"
    /\ wpc' = [wpc EXCEPT ![r] = "cancelled"]
    /\ UNCHANGED <<mem, queue, cur, fut, disk, tmp, loop, faults>>
    /\ UNCHANGED auxvars
    /\ WFrame

\* a __set that drops the assignment
ApplySetDropped(f, key, val) == f

\* FeatureState.__set: self.features[key] = value
ApplySet(f, key, val) == (key :> val) @@ f

\* `await task_coro` for async_add / async_discard / FeatureState.__set
WorkerRunMutation(r) ==
    /\ ~crashed /\ loop = r
    /\ wpc[r] = "run"
    /\ cur[r].kind \in {"add", "discard", "set"}
    /\ mem' = [mem EXCEPT ![r] =
                 CASE cur[r].kind = "add" -> @ \cup {cur[r].item}
                   [] cur[r].kind = "discard" -> @ \ {cur[r].item}
                   [] cur[r].kind = "set" -> ApplySet(@, cur[r].key, cur[r].val)]
    /\ lastRun' = [lastRun EXCEPT ![r] = [id |-> cur[r].id, kind |-> cur[r].kind]]
    /\ lastSet' = IF cur[r].kind = "set"
                  THEN (cur[r].key :> [id |-> cur[r].id, val |-> cur[r].val]) @@ lastSet
                  ELSE lastSet
    /\ wpc' = [wpc EXCEPT ![r] = "ok"]
    /\ UNCHANGED <<queue, cur, fut, disk, tmp, loop, faults, inflight, wprev>>
    /\ WFrame

\* what the running backup task writes: the text captured by Preference.backup, or
\* json.dump of the features dict the task holds a reference to
WriteText(r) == IF r \in Prefs THEN cur[r].text ELSE JsonDump(mem[r])

\* a writer that empties the state it was given
WrittenStateCleared(m, r) == [m EXCEPT ![r] = IF r \in Prefs THEN {} ELSE DefaultFeatures]

\* the writers only read the state they are given: str(self.set) is evaluated by backup(),
\* json.dump(content, ...) serializes self.features
WrittenState(m, r) == m

\* `await task_coro` for a backup task: the first statement of the writer that touches storage
\*   blob:       blob.upload_from_string(...)           (one call)
\*   Preference: async_write, open(filename, 'w')       (truncates the destination)
\*   FeatureState: async_dump, tempfile.mkstemp(...)    (creates the temporary file)
WorkerRunBackup(r) ==
    /\ ~crashed /\ loop = r
    /\ wpc[r] = "run"
    /\ cur[r].kind = "backup"
    /\ lastRun' = [lastRun EXCEPT ![r] = [id |-> cur[r].id, kind |-> cur[r].kind]]
    /\ wprev' = [wprev EXCEPT ![r] = disk[r]]
    /\ \/ /\ Fault
          /\ wpc' = [wpc EXCEPT ![r] = "err"]
          /\ UNCHANGED <<disk, tmp>>
       \/ /\ NoFault
          /\ IF bucket
             THEN /\ disk' = [disk EXCEPT ![r] = WriteText(r)]
                  /\ wpc' = [wpc EXCEPT ![r] = "ok"]
                  /\ UNCHANGED tmp
             ELSE IF r \in Prefs
             THEN /\ disk' = [disk EXCEPT ![r] = <<>>]
                  /\ wpc' = [wpc EXCEPT ![r] = "pw_opened"]
                  /\ UNCHANGED tmp
             ELSE /\ tmp' = [tmp EXCEPT ![r] = <<>>]
                  /\ wpc' = [wpc EXCEPT ![r] = "d_tmp"]
                  /\ UNCHANGED disk
    /\ mem' = WrittenState(mem, r)
    /\ UNCHANGED <<queue, cur, fut, loop, inflight, lastSet>>
    /\ WFrame

StepFrame == UNCHANGED <<mem, queue, cur, fut, loop, lastRun, inflight, lastSet, wprev>> /\ WFrame

\* async_write: file.write(content); any part of the buffer may have reached the file
PrefWrite(r) ==
    /\ ~crashed /\ loop = r
    /\ wpc[r] = "pw_opened"
    /\ \E p \in Prefixes(WriteText(r)) : disk' = [disk EXCEPT ![r] = p]
    /\ \/ NoFault /\ wpc' = [wpc EXCEPT ![r] = "pw_written"]
       \/ Fault /\ wpc' = [wpc EXCEPT ![r] = "err"]
    /\ UNCHANGED tmp
    /\ StepFrame

\* async_write: leaving the `with` block flushes and closes the file
PrefClose(r) ==
    /\ ~crashed /\ loop = r
    /\ wpc[r] = "pw_written"
    /\ \/ /\ NoFault
          /\ disk' = [disk EXCEPT ![r] = WriteText(r)]
          /\ wpc' = [wpc EXCEPT ![r] = "ok"]
       \/ /\ Fault
          /\ wpc' = [wpc EXCEPT ![r] = "err"]
          /\ UNCHANGED disk
    /\ UNCHANGED tmp
    /\ StepFrame

\* async_dump: json.dump into the temporary file, flush, fsync
DumpWrite(r) ==
    /\ ~crashed /\ loop = r
    /\ wpc[r] = "d_tmp"
    /\ \/ /\ NoFault
          /\ tmp' = [tmp EXCEPT ![r] = WriteText(r)]
          /\ wpc' = [wpc EXCEPT ![r] = "d_dumped"]
       \/ /\ Fault
          /\ \E p \in Prefixes(WriteText(r)) : tmp' = [tmp EXCEPT ![r] = p]
          /\ wpc' = [wpc EXCEPT ![r] = "d_fail"]
    /\ UNCHANGED disk
    /\ StepFrame

\* async_dump: os.replace(tmppath, path)
DumpReplace(r) ==
    /\ ~crashed /\ loop = r
    /\ wpc[r] = "d_dumped"
    /\ \/ /\ NoFault
          /\ disk' = [disk EXCEPT ![r] = tmp[r]]
          /\ tmp' = [tmp EXCEPT ![r] = NoFile]
          /\ wpc' = [wpc EXCEPT ![r] = "d_replaced"]
       \/ /\ Fault
          /\ wpc' = [wpc EXCEPT ![r] = "d_fail"]
          /\ UNCHANGED <<disk, tmp>>
    /\ StepFrame

\* async_dump: open the directory and os.fsync(dir_fd) (posix)
DumpDirSync(r) ==
    /\ ~crashed /\ loop = r
    /\ wpc[r] = "d_replaced"
    /\ \/ NoFault /\ wpc' = [wpc EXCEPT ![r] = "d_synced"]
       \/ Fault /\ wpc' = [wpc EXCEPT ![r] = "d_fail"]
    /\ UNCHANGED <<disk, tmp>>
    /\ StepFrame

\* async_dump: finally: Path(tmppath).unlink(missing_ok = True)
DumpFinally(r) ==
    /\ ~crashed /\ loop = r
    /\ wpc[r] \in {"d_synced", "d_fail"}
    /\ tmp' = [tmp EXCEPT ![r] = NoFile]
    /\ wpc' = [wpc EXCEPT ![r] = IF wpc[r] = "d_synced" THEN "ok" ELSE "err"]
    /\ UNCHANGED <<disk, faults>>
    /\ StepFrame

\* worker lines 38-43: set_exception / set_result on done_future, then task_done().
\* Both raise InvalidStateError when the future is no longer pending; nothing in the
\* worker catches it, so it ends the worker task.
WorkerResolve(r) ==
    /\ ~crashed /\ loop = r
    /\ wpc[r] \in {"ok", "err"}
    /\ inflight' = [inflight EXCEPT ![r] = @ \ {cur[r].id}]
    /\ cur' = [cur EXCEPT ![r] = NoTask]
    /\ IF fut[cur[r].id] = "pending"
       THEN /\ fut' = [fut EXCEPT ![cur[r].id] = wpc[r]]
            /\ wpc' = [wpc EXCEPT ![r] = "get"]
            /\ UNCHANGED loop
       ELSE /\ wpc' = [wpc EXCEPT ![r] = "dead"]
            /\ loop' = "idle"
            /\ UNCHANGED fut
    /\ wprev' = [wprev EXCEPT ![r] = NoFile]
    /\ UNCHANGED <<mem, queue, disk, tmp, faults, lastRun, lastSet>>
    /\ WFrame

InWrite(r) == wpc[r] \in {"pw_opened", "pw_written", "d_tmp", "d_dumped", "d_replaced", "d_synced", "d_fail"}

\* the process dies in the middle of a snapshot write; a rename that the directory
\* fsync has not yet made durable may be lost
Crash ==
    /\ ~crashed
    /\ \E r \in Res : InWrite(r)
    /\ crashed' = TRUE
    /\ \E lost \in BOOLEAN :
        disk' = [r \in Res |-> IF lost /\ wpc[r] = "d_replaced" THEN wprev[r] ELSE disk[r]]
    /\ UNCHANGED <<bucket, mem, queue, wpc, cur, fut, tmp, loop, nextId, torn, faults>>
    /\ UNCHANGED auxvars /\ UNCHANGED hvars /\ UNCHANGED lvars /\ UNCHANGED mvars /\ UNCHANGED xvars /\ UNCHANGED jvars

Worker(r) ==
    \/ WorkerGet(r)
    \/ WorkerRunMutation(r)
    \/ WorkerRunBackup(r)
    \/ PrefWrite(r)
    \/ PrefClose(r)
    \/ DumpWrite(r)
    \/ DumpReplace(r)
    \/ DumpDirSync(r)
    \/ DumpFinally(r)
    \/ WorkerResolve(r)

Next ==
    \/ \E r \in Prefs, item \in Items : Add(r, item)
    \/ \E r \in Prefs, item \in Items : Discard(r, item)
    \/ \E r \in Flags, key \in SetKeys, val \in BOOLEAN : Set(r, key, val)
    \/ \E r \in Res : Backup(r)
    \/ \E t \in TaskIds : CancelHandle(t)
    \/ \E r \in Res : Teardown(r)
    \/ \E r \in Res : WorkerCancelled(r)
    \/ \E r \in Res : Worker(r)
    \/ Crash

Spec == Init /\ [][Next]_vars

\* ------------------------------------------------------- command handlers
\* a handler that does not wait for the future it was given
AwaitedSkipped(t) == TRUE

\* `await future`: the handler goes on once the future is done
Awaited(t) == fut[t] # "pending"

HFrame == UNCHANGED <<bucket, mem, cur, disk, tmp, loop, torn, crashed, faults>>
          /\ UNCHANGED auxvars /\ UNCHANGED lvars /\ UNCHANGED mvars /\ UNCHANGED xvars /\ UNCHANGED jvars
HNoPutFrame == UNCHANGED <<bucket, mem, queue, wpc, cur, disk, tmp, loop, nextId, torn, crashed, faults>>
               /\ UNCHANGED auxvars /\ UNCHANGED lvars /\ UNCHANGED mvars /\ UNCHANGED xvars /\ UNCHANGED jvars
HIdleFrame == UNCHANGED <<bucket, mem, queue, wpc, cur, fut, disk, tmp, loop, nextId, torn, crashed, faults>>
              /\ UNCHANGED auxvars /\ UNCHANGED lvars /\ UNCHANGED mvars /\ UNCHANGED xvars /\ UNCHANGED jvars

ChatCmds == {"enable", "disable"}
FeatureCmds == {"enable_features", "disable_features"}
ArgLists == {<<>>} \cup UNION {[1..n -> SetKeys \cup {"bogus"}] : n \in 1..MaxArgs}

Commands ==
    {[name |-> n, item |-> i, args |-> <<>>, admin |-> a] :
        n \in ChatCmds, i \in Items, a \in BOOLEAN}
    \cup {[name |-> n, item |-> 0, args |-> as, admin |-> a] :
        n \in FeatureCmds, as \in ArgLists, a \in BOOLEAN}

\* a handler that sends its reply as soon as the backup is enqueued
SuspendedReplyEarly(pc, name, args, f) ==
    [pc |-> IF pc = "await_bak" THEN "reply" ELSE pc, name |-> name, args |-> args, fut |-> f]

\* the locals a suspended handler reads when it resumes: where it is, the command, the
\* arguments still to be processed and the future it awaits
Suspended(pc, name, args, f) == [pc |-> pc, name |-> name, args |-> args, fut |-> f]

\* the application processes an update: a new handler coroutine
CanStart == started < NumHandlers

\* the handler whose other coroutines are `rest` suspends as b / returns
Suspend(rest, b) == handlers' = rest (+) SetToBag({b})
Return(rest) == handlers' = rest
Others(a) == handlers (-) SetToBag({a})

\* a check that lets every author through
EnsureAdminSkipped(c) == TRUE

\* ensure_admin: is_admin(message.from_user.id); replies "not_admin" otherwise
ensure_admin(c) == c.admin

\* enable / disable up to the first await that suspends: the membership test, ensure_admin,
\* and `future = await active_chat_ids.add(...)` (discard for /disable)
HChatStart(c) ==
    /\ Running
    /\ CanStart
    /\ c.name \in ChatCmds
    /\ started' = started + 1
    /\ IF (c.name = "enable") = (c.item \in mem["active_chat_ids"])
       THEN \* reply "no_need"
            /\ UNCHANGED handlers
            /\ HIdleFrame
       ELSE IF ~ensure_admin(c)
       THEN \* ensure_admin replies "not_admin"
            /\ UNCHANGED handlers
            /\ HIdleFrame
       ELSE /\ Put("active_chat_ids", IF c.name = "enable" THEN "add" ELSE "discard",
                   c.item, "", FALSE)
            /\ Suspend(handlers, Suspended("await_mut", c.name, <<>>, nextId))
            /\ HFrame

\* the body of `for arg in context.args` up to its first await that suspends: the reply
\* "arg_not_valid", the reply "no_need", or `future = await feature_state.set(arg, ...)`
ArgStep(rest, name, args) ==
    LET arg == Head(args)
        want == (name = "enable_features")
    IN IF arg \notin DOMAIN mem["feature_state"]
       THEN /\ Suspend(rest, Suspended("args", name, Tail(args), 0))
            /\ HIdleFrame
       ELSE IF mem["feature_state"][arg] = want
       THEN /\ Suspend(rest, Suspended("args", name, Tail(args), 0))
            /\ HIdleFrame
       ELSE \* the iteration that starts here ends the handler (see HAwaitBackup):
            \* the remaining arguments are never read
            /\ Put("feature_state", "set", 0, arg, want)
            /\ Suspend(rest, Suspended("await_mut", name, <<>>, nextId))
            /\ HFrame

\* enable_features / disable_features: ensure_admin, the "no_args" reply, and the first
\* iteration of the loop (ensure_admin does not suspend for an administrator)
HFeatureStart(c) ==
    /\ Running
    /\ CanStart
    /\ c.name \in FeatureCmds
    /\ started' = started + 1
    /\ IF ensure_admin(c) /\ c.args # <<>>
       THEN ArgStep(handlers, c.name, c.args)
       ELSE /\ UNCHANGED handlers
            /\ HIdleFrame

\* the reply of the previous iteration was sent: the next iteration, or the end of the loop
HFeatureArg ==
  \E a \in BagToSet(handlers) :
    /\ Running
    /\ a.pc = "args"
    /\ UNCHANGED started
    /\ IF a.args = <<>>
       THEN /\ Return(Others(a))
            /\ HIdleFrame
       ELSE ArgStep(Others(a), a.name, a.args)

HRes(a) == IF a.name \in ChatCmds THEN "active_chat_ids" ELSE "feature_state"

\* `await future` of the mutation, then `future = await <resource>.backup()`; an exception
\* of the future ends the handler
HAwaitMutation ==
  \E a \in BagToSet(handlers) :
    /\ Running
    /\ a.pc = "await_mut"
    /\ Awaited(a.fut)
    /\ UNCHANGED started
    /\ IF fut[a.fut] \in {"err", "cancelled"}
       THEN /\ Return(Others(a))
            /\ Drop(a.fut)
            /\ HNoPutFrame
       ELSE /\ PutAfter(a.fut, HRes(a), "backup", 0, "", FALSE)
            /\ Suspend(Others(a), Suspended("await_bak", a.name, a.args, nextId))
            /\ HFrame

\* `await future` of the backup, then the "success" reply; an exception of the future ends
\* the handler.  After the reply, enable_features / disable_features notify the active chats
\* and call send_to_logging_chats with three positional arguments, which raises TypeError
\* and ends the handler before the next argument.
HAwaitBackup ==
  \E a \in BagToSet(handlers) :
    /\ Running
    /\ a.pc = "await_bak"
    /\ Awaited(a.fut)
    /\ UNCHANGED started
    /\ IF fut[a.fut] \in {"err", "cancelled"}
       THEN Return(Others(a))
       ELSE Suspend(Others(a), Suspended("reply", a.name, <<>>, 0))
    /\ Drop(a.fut)
    /\ HNoPutFrame

\* the "success" reply was sent: enable / disable return; enable_features / disable_features
\* notify the active chats and raise TypeError at the call of send_to_logging_chats
HReply ==
  \E a \in BagToSet(handlers) :
    /\ Running
    /\ a.pc = "reply"
    /\ UNCHANGED started
    /\ Return(Others(a))
    /\ HIdleFrame

Handler ==
    \/ \E c \in Commands : HChatStart(c)
    \/ \E c \in Commands : HFeatureStart(c)
    \/ HFeatureArg
    \/ HAwaitMutation
    \/ HAwaitBackup
    \/ HReply

NextH ==
    \/ Handler
    \/ \E r \in Res : Worker(r)

SpecH == Init /\ [][NextH]_vars

\* ------------------------------------------------- construction from a snapshot
\* __update_from_dict raises ValueError: some known key has a value that is not a bool
UpdateRaises(f, pairs) ==
    \E i \in 1..Len(pairs) : pairs[i][1] \in DOMAIN f /\ pairs[i][2] \notin {"true", "false"}

\* Preference.__import_from_backup: `except Exception as e: print(e, ...)` handles every
\* error of read / literal_eval
PrefImportRaises(file) == FALSE

\* FeatureState.__import_from_backup: every error of json.load, the isinstance check and
\* __update_from_dict is handled by `print(traceback.format_exc(), ...)`, and featurestate.py
\* does not import traceback: the handler itself raises NameError, which leaves __init__
FlagsImportRaises(file) ==
    /\ file # NoFile
    /\ \/ ~JsonLoad(file).ok
       \/ UpdateRaises(DefaultFeatures, JsonLoad(file).pairs)

\* snapshots that no backup of this program wrote: an empty or truncated file
ForeignPrefFiles == {<<>>, <<"{", "1">>}

\* an empty file, a truncated object, a JSON array, an unknown key, and a number as the
\* value of a known key after / before a well-formed entry
ForeignFlagFiles ==
    {<<>>, <<"{", "inst">>, <<"[", "]">>,
     <<"{", "zzz", "0", "inst", "false", "}">>,
     <<"{", "inst", "false", "yt", "0", "}">>,
     <<"{", "yt", "0", "inst", "false", "}">>}

ForeignFiles(r) == {NoFile} \cup (IF r \in Prefs THEN ForeignPrefFiles ELSE ForeignFlagFiles)

\* a process holding resource objects in any state, nothing persisted yet
InitL ==
    /\ bucket \in BOOLEAN
    /\ \E S \in SUBSET Items, f \in [Features -> BOOLEAN] :
         mem = [r \in Res |-> IF r \in Prefs THEN S ELSE f]
    /\ disk = [r \in Res |-> NoFile]
    /\ lpc = [r \in Res |-> "live"]
    /\ lsrc = [r \in Res |-> NoSrc]
    /\ InitQueues
    /\ InitJobs
    /\ InitMsgs
    /\ InitUpdates
    /\ wtoken = FALSE

LFrame == UNCHANGED <<bucket, queue, wpc, cur, fut, tmp, loop, nextId, torn, crashed, faults>>
          /\ UNCHANGED auxvars /\ UNCHANGED hvars /\ UNCHANGED jvars /\ UNCHANGED mvars /\ UNCHANGED xvars

\* the last thing the process does with resource r is a backup of its state: the writer
\* leaves the text of Preference.backup / json.dump of the features
LBackup(r) ==
    /\ lpc[r] = "live"
    /\ disk' = [disk EXCEPT ![r] = Serialize(r, mem[r])]
    /\ lsrc' = [lsrc EXCEPT ![r] = [from |-> "backup", state |-> mem[r]]]
    /\ lpc' = [lpc EXCEPT ![r] = "stored"]
    /\ UNCHANGED mem
    /\ LFrame

\* the process ends and the snapshot location holds something else, or nothing
LForeign(r, file) ==
    /\ lpc[r] = "live"
    /\ file \in ForeignFiles(r)
    /\ disk' = [disk EXCEPT ![r] = file]
    /\ lsrc' = [lsrc EXCEPT ![r] = [from |-> "other", state |-> {}]]
    /\ lpc' = [lpc EXCEPT ![r] = "stored"]
    /\ UNCHANGED mem
    /\ LFrame

\* the next process constructs the resource: __init__ with __import_from_backup
LConstruct(r) ==
    /\ lpc[r] = "stored"
    /\ mem' = [mem EXCEPT ![r] = IF r \in Prefs THEN PrefImport(disk[r]) ELSE FlagsImport(disk[r])]
    /\ lpc' = [lpc EXCEPT ![r] =
                 IF (IF r \in Prefs THEN PrefImportRaises(disk[r]) ELSE FlagsImportRaises(disk[r]))
                 THEN "raised" ELSE "built"]
    /\ UNCHANGED <<disk, lsrc>>
    /\ LFrame

NextL ==
    \/ \E r \in Res : LBackup(r)
    \/ \E r \in Res, file \in ForeignPrefFiles \cup ForeignFlagFiles \cup {NoFile} : LForeign(r, file)
    \/ \E r \in Res : LConstruct(r)

SpecL == InitL /\ [][NextL]_vars

\* --------------------------------------------------- download supervisor
\* download_yt_and_reply: MAX_TRY_COUNT = 3
MAX_TRY_COUNT == 3

JobTypes == {"audio", "album", "short"}

\* a worker process: "alive", "exited" (on its own, with `code`), "killed" (by terminate())
\* or "reaped" (joined); timedout: join(timeout) returned while it was alive
NewProc == [st |-> "alive", code |-> 1, timedout |-> FALSE]

LastProc == procs[Len(procs)]
SetLast(p) == [procs EXCEPT ![Len(procs)] = p]

JFrame == UNCHANGED <<bucket, mem, queue, wpc, cur, fut, disk, tmp, loop, nextId, torn, crashed>>
          /\ UNCHANGED auxvars /\ UNCHANGED hvars /\ UNCHANGED lvars /\ UNCHANGED mvars /\ UNCHANGED xvars

\* a handler calls download_yt_and_reply(id, type, message): the type check and the locals
JCall(t) ==
    /\ Running
    /\ jpc = "none"
    /\ jtype' = t
    /\ IF t \in JobTypes
       THEN /\ jpc' = "loop"
            /\ worth_trying' = TRUE
            /\ try_count' = 0
            /\ exitcode' = 1
       ELSE /\ jpc' = "returned"
            /\ UNCHANGED <<worth_trying, try_count, exitcode>>
    /\ UNCHANGED <<procs, hb, exc, jout, dir, hbn, rtask, faults>>
    /\ JFrame

\* a retry condition that allows MAX_TRY_COUNT retries after the first attempt
WorthRetryInclusive(n) == n <= MAX_TRY_COUNT

\* `worth_trying = try_count < MAX_TRY_COUNT`
WorthRetry(n) == n < MAX_TRY_COUNT

\* a loop that leaves worth_trying as the previous iteration set it
WorthTryingKept(w) == w

\* `worth_trying = False` at the start of an iteration
WorthTryingAtStart(w) == FALSE

\* an exit code that is never read from the process
ExitCodeIgnored(p) == 1

\* `exitcode = download_process.exitcode`
ExitCodeOf(p) == p.code

\* a next iteration that starts while the previous one is still in its finally clause
CanAttemptEarly == jpc \in {"loop", "finally"} /\ worth_trying

\* `while worth_trying:` is evaluated after the finally clause of the previous iteration
CanAttempt == jpc = "loop" /\ worth_trying

\* cleanup that runs only when the body raised nothing
AfterBodyNoFinally(e) == IF e = "none" THEN "finally" ELSE "except"

\* the inner try statement: its finally clause runs whether or not the body raised
AfterBody(e) == "finally"

\* a message to the requester for every attempt that timed out
RetryReportReply == <<"reply_retry">>

\* the branch `worth_trying = try_count < MAX_TRY_COUNT` prints to stderr and sends nothing
RetryReport == <<>>

\* a join without a timeout
JoinReturnedOnExit(p) == p.st # "alive"

\* `download_process.join(timeout = TIMEOUT)` returns when the process has ended or when
\* TIMEOUT has elapsed, whichever comes first
JoinReturned(p) == TRUE

\* a removal that leaves the directory in place
RmtreeSkipped(d) == d

\* `shutil.rmtree(target, ignore_errors = True)` / `shutil.rmtree(target)`
Rmtree(d) == FALSE

\* one iteration up to `await asyncio.to_thread(download_process.join, timeout = TIMEOUT)`:
\* try_count += 1, worth_trying = False, multiprocessing.Process(...), start(), the heartbeat
\* task.  When Process(...) or start() raises, no process runs; the finally clause has no
\* started process to act on and the exception reaches the outer handlers.
JAttempt ==
    /\ Running
    /\ CanAttempt
    /\ try_count' = try_count + 1
    /\ worth_trying' = WorthTryingAtStart(worth_trying)
    /\ \/ /\ NoFault
          /\ procs' = Append(procs, NewProc)
          /\ hb' = "start"
          /\ hbn' = 0
          /\ jpc' = "join"
          /\ UNCHANGED exc
       \/ /\ Fault
          /\ exc' = "Error"
          /\ jpc' = "except"
          /\ UNCHANGED <<procs, hb, hbn>>
    /\ UNCHANGED <<jtype, exitcode, jout, dir, rtask>>
    /\ JFrame

\* the worker process (create_ytml_and_download_*) creates files under `target`
ProcWrite ==
    /\ ~crashed
    /\ procs # <<>> /\ LastProc.st = "alive"
    /\ ~dir
    /\ dir' = TRUE
    /\ UNCHANGED <<jpc, jtype, try_count, worth_trying, exitcode, procs, hb, exc, jout, hbn,
                   rtask, faults>>
    /\ JFrame

\* the worker process ends on its own with an exit code; code 0: download_song /
\* download_album / download_video returned, what it downloaded is under `target`
ProcExit(c) ==
    /\ ~crashed
    /\ jpc \in {"join", "finally"}
    /\ procs # <<>> /\ LastProc.st = "alive"
    /\ c = 0 => dir
    /\ procs' = SetLast([LastProc EXCEPT !.st = "exited", !.code = c])
    /\ UNCHANGED <<jpc, jtype, try_count, worth_trying, exitcode, hb, exc, jout, dir, hbn,
                   rtask, faults>>
    /\ JFrame

\* what the heartbeat of the job watches: reply_yt_task once it exists, the newest worker
\* process before
WatchedAlive ==
    IF rtask # "none" THEN rtask = "running"
    ELSE procs # <<>> /\ LastProc.st = "alive"

\* a loop that goes on for a fixed number of rounds after the watched operation has finished
LoopCondRounds == WatchedAlive \/ hbn < MaxBeats

\* `while process.is_alive():` / `while not task.done():`
LoopCond == WatchedAlive

\* repeat_while_process_alive / repeat_until_task_done: the loop condition, evaluated when the
\* task first runs and after every sleep, and `await action(...)` when it holds
HbStep ==
    /\ Running
    /\ hb \in {"start", "sleep"}
    /\ IF LoopCond
       THEN /\ hbn < MaxBeats
            /\ hb' = "act"
            /\ hbn' = hbn + 1
       ELSE /\ hb' = "done"
            /\ UNCHANGED hbn
    /\ UNCHANGED <<jpc, jtype, try_count, worth_trying, exitcode, procs, exc, jout, dir, rtask,
                   faults>>
    /\ JFrame

\* message.reply_chat_action returns and the heartbeat goes to sleep, or it raises and the
\* heartbeat task ends with that exception
HbActReturns ==
    /\ Running
    /\ hb = "act"
    /\ \/ NoFault /\ hb' = "sleep"
       \/ Fault /\ hb' = "failed"
    /\ UNCHANGED <<jpc, jtype, try_count, worth_trying, exitcode, procs, exc, jout, dir, hbn,
                   rtask>>
    /\ JFrame

\* join(timeout) returned, the else clause: `if download_process.is_alive()` ... `raise
\* Timeout` ... `exitcode = download_process.exitcode`
JJoinReturns ==
    /\ Running
    /\ jpc = "join"
    /\ JoinReturned(LastProc)
    /\ IF LastProc.st = "alive"
       THEN /\ procs' = SetLast([LastProc EXCEPT !.timedout = TRUE])
            /\ worth_trying' = WorthRetry(try_count)
            /\ exc' = IF WorthRetry(try_count) THEN "none" ELSE "Timeout"
            /\ jpc' = AfterBody(IF WorthRetry(try_count) THEN "none" ELSE "Timeout")
            /\ jout' = IF WorthRetry(try_count) THEN jout \o RetryReport ELSE jout
            /\ UNCHANGED exitcode
       ELSE /\ exitcode' = ExitCodeOf(LastProc)
            /\ jpc' = AfterBody("none")
            /\ UNCHANGED <<procs, worth_trying, exc, jout>>
    /\ UNCHANGED <<jtype, try_count, hb, dir, hbn, rtask, faults>>
    /\ JFrame

\* `await asyncio.to_thread(...)` raises (an unexpected internal error): `except: raise`
JJoinRaises ==
    /\ Running
    /\ jpc = "join"
    /\ Fault
    /\ exc' = "Error"
    /\ jpc' = AfterBody("Error")
    /\ UNCHANGED <<jtype, try_count, worth_trying, exitcode, procs, hb, jout, dir, hbn, rtask>>
    /\ JFrame

\* finally: download_process.terminate()
JTerminate ==
    /\ Running
    /\ jpc = "finally"
    /\ procs' = SetLast([LastProc EXCEPT !.st = IF @ = "alive" THEN "killed" ELSE @])
    /\ jpc' = "reap"
    /\ UNCHANGED <<jtype, try_count, worth_trying, exitcode, hb, exc, jout, dir, hbn, rtask,
                   faults>>
    /\ JFrame

\* finally: await asyncio.to_thread(download_process.join) returns once the process has ended
JReap ==
    /\ Running
    /\ jpc = "reap"
    /\ LastProc.st # "alive"
    /\ procs' = SetLast([LastProc EXCEPT !.st = "reaped"])
    /\ jpc' = "await_hb"
    /\ UNCHANGED <<jtype, try_count, worth_trying, exitcode, hb, exc, jout, dir, hbn, rtask,
                   faults>>
    /\ JFrame

\* finally: `await reply_chat_action_task` returns when the heartbeat loop has ended, or the
\* exception the heartbeat ended with is raised here and replaces the one in flight; then the
\* loop condition
JAwaitHb ==
    /\ Running
    /\ jpc = "await_hb"
    /\ hb \in {"done", "failed"}
    /\ exc' = IF hb = "failed" THEN "Error" ELSE exc
    /\ jpc' = IF hb = "failed" \/ exc # "none" THEN "except"
              ELSE IF worth_trying THEN "loop" ELSE "else"
    /\ UNCHANGED <<jtype, try_count, worth_trying, exitcode, procs, hb, jout, dir, hbn, rtask,
                   faults>>
    /\ JFrame

\* what a handler of the outer try sends: the reply to the requester, then the message to the
\* logging chats (send_to_logging_chats handles its own errors); when message.reply_html
\* raises, nothing was sent and the exception leaves download_yt_and_reply.  In each case
\* `finally: shutil.rmtree(target, ignore_errors = True)` runs before the return.
JReport(reply, log, end) ==
    /\ \/ /\ NoFault
          /\ jout' = jout \o <<reply, log>>
          /\ jpc' = end
       \/ /\ Fault
          /\ jout' = Append(jout, reply)
          /\ jpc' = end
       \/ /\ Fault
          /\ jout' = jout
          /\ jpc' = "raised"
    /\ dir' = Rmtree(dir)

\* `except Timeout:` / `except Exception as e:`
JExcept ==
    /\ Running
    /\ jpc = "except"
    /\ IF exc = "Timeout"
       THEN JReport("reply_timeout", "log_timeout", "timed_out")
       ELSE JReport("reply_error", "log_error", "error")
    /\ UNCHANGED <<jtype, try_count, worth_trying, exitcode, procs, hb, exc, hbn, rtask>>
    /\ JFrame

\* `else:` of the outer try: for exit code 0 the tasks reply_yt_task (reply_audios /
\* reply_media) and its heartbeat are created; otherwise the exit-code report
JElse ==
    /\ Running
    /\ jpc = "else"
    /\ IF exitcode = 0
       THEN /\ rtask' = "running"
            /\ hb' = "start"
            /\ hbn' = 0
            /\ jpc' = "await_reply"
            /\ UNCHANGED <<jout, dir, faults>>
       ELSE /\ JReport("reply_exitcode", "log_exitcode", "failed")
            /\ UNCHANGED <<rtask, hb, hbn>>
    /\ UNCHANGED <<jtype, try_count, worth_trying, exitcode, procs, exc>>
    /\ JFrame

\* reply_yt_task ends: the media were sent and `target` removed, or it raised (a failed
\* reply_media_group, a file that cannot be read) and `target` is as it was
ReplyEnds ==
    /\ Running
    /\ rtask = "running"
    /\ \/ /\ NoFault
          /\ rtask' = "done"
          /\ jout' = Append(jout, "reply_media")
          /\ dir' = Rmtree(dir)
       \/ /\ Fault
          /\ rtask' = "failed"
          /\ UNCHANGED <<jout, dir>>
    /\ UNCHANGED <<jpc, jtype, try_count, worth_trying, exitcode, procs, hb, exc, hbn>>
    /\ JFrame

\* `await reply_yt_task`: its exception leaves download_yt_and_reply through the outer finally
JAwaitReply ==
    /\ Running
    /\ jpc = "await_reply"
    /\ rtask \in {"done", "failed"}
    /\ IF rtask = "failed"
       THEN jpc' = "raised" /\ dir' = Rmtree(dir)
       ELSE jpc' = "await_hb2" /\ UNCHANGED dir
    /\ UNCHANGED <<jtype, try_count, worth_trying, exitcode, procs, hb, exc, jout, hbn, rtask,
                   faults>>
    /\ JFrame

\* `await reply_chat_action_task` of the success path, then the outer finally
JAwaitHb2 ==
    /\ Running
    /\ jpc = "await_hb2"
    /\ hb \in {"done", "failed"}
    /\ jpc' = IF hb = "failed" THEN "raised" ELSE "succeeded"
    /\ dir' = Rmtree(dir)
    /\ UNCHANGED <<jtype, try_count, worth_trying, exitcode, procs, hb, exc, jout, hbn, rtask,
                   faults>>
    /\ JFrame

NextJ ==
    \/ \E t \in JobTypes \cup {"other"} : JCall(t)
    \/ JAttempt
    \/ ProcWrite
    \/ \E c \in {0, 1} : ProcExit(c)
    \/ HbStep
    \/ HbActReturns
    \/ JJoinReturns
    \/ JJoinRaises
    \/ JTerminate
    \/ JReap
    \/ JAwaitHb
    \/ JExcept
    \/ JElse
    \/ ReplyEnds
    \/ JAwaitReply
    \/ JAwaitHb2

SpecJ == Init /\ [][NextJ]_vars

\* the event loop runs every coroutine that is ready; join(timeout) returns by its timeout;
\* terminate() ends the process and join() returns; message.reply_chat_action and the
\* requests of reply_yt_task return or raise (they carry the timeouts of the HTTP client).
\* Nothing is assumed about the worker process: it may never exit on its own.
JFair ==
    /\ WF_vars(JAttempt) /\ WF_vars(JJoinReturns) /\ WF_vars(JTerminate) /\ WF_vars(JReap)
    /\ WF_vars(JAwaitHb) /\ WF_vars(JExcept) /\ WF_vars(JElse)
    /\ WF_vars(JAwaitReply) /\ WF_vars(JAwaitHb2)
    /\ WF_vars(HbStep) /\ WF_vars(HbActReturns) /\ WF_vars(ReplyEnds)

SpecJF == Init /\ [][NextJ]_vars /\ JFair

\* ------------------------------------------- Instagram links and degradation
MQuiet == UNCHANGED <<bucket, mem, queue, wpc, cur, fut, disk, tmp, loop, nextId, torn, crashed>>
          /\ UNCHANGED auxvars /\ UNCHANGED hvars /\ UNCHANGED lvars /\ UNCHANGED jvars
          /\ UNCHANGED xvars
MPutFrame == UNCHANGED <<bucket, mem, cur, disk, tmp, loop, torn, crashed>>
             /\ UNCHANGED auxvars /\ UNCHANGED hvars /\ UNCHANGED lvars /\ UNCHANGED jvars
             /\ UNCHANGED xvars

\* handle_message for a message with n Instagram post links: the flags are read into locals
\* once, then `while download_inst and inst_domain in text` reaches the first
\* download_post_and_reply
MStart(n) ==
    /\ Running
    /\ mpc = "none"
    /\ mlinks' = n
    /\ minst' = mem["feature_state"]["inst"]
    /\ mpc' = IF mem["feature_state"]["inst"] THEN "op" ELSE "done"
    /\ UNCHANGED <<mfut, mexc, mfatal, mnotes, bset, bseen, faults>>
    /\ MQuiet

\* download_post_and_reply: the instaloader call returns and the media are sent, raises an
\* exception that is reported to the requester, or raises AbortDownloadException
MOp(outcome) ==
    /\ Running
    /\ mpc = "op"
    /\ IF outcome = "fatal"
       THEN mpc' = "f_reply" /\ mfatal' = mfatal + 1
       ELSE mpc' = "next" /\ UNCHANGED mfatal
    /\ UNCHANGED <<mlinks, minst, mfut, mexc, mnotes, bset, bseen, faults>>
    /\ MQuiet

\* a degradation that is skipped when the body of the handler raised
DegradeAfterSuccess(e) == ~e

\* `try: ... finally:` inside `except AbortDownloadException`: the degradation sequence runs
\* whether or not message.reply_html raised
DegradeAfter(e) == TRUE

\* `except AbortDownloadException`: message.reply_html (which may raise) and
\* send_to_logging_chats, then the finally clause up to `future = await
\* feature_state.set("inst", False)`
MFatalReply ==
    /\ Running
    /\ mpc = "f_reply"
    /\ \E e \in BOOLEAN :
         /\ IF e THEN Fault ELSE NoFault
         /\ mexc' = e
         /\ IF DegradeAfter(e)
            THEN /\ Put("feature_state", "set", 0, "inst", FALSE)
                 /\ mfut' = nextId
                 /\ mpc' = "f_await_set"
            ELSE /\ mpc' = "raised_reply"
                 /\ UNCHANGED <<mfut, queue, wpc, nextId, fut>>
    /\ UNCHANGED <<mlinks, minst, mfatal, mnotes, bset, bseen>>
    /\ MPutFrame

\* `await future` of the set, then `future = await feature_state.backup()`
MAwaitSet ==
    /\ Running
    /\ mpc = "f_await_set"
    /\ Awaited(mfut)
    /\ IF fut[mfut] \in {"err", "cancelled"}
       THEN /\ mpc' = "raised_future"
            /\ mfut' = 0
            /\ Drop(mfut)
            /\ UNCHANGED <<queue, wpc, nextId>>
       ELSE /\ PutAfter(mfut, "feature_state", "backup", 0, "", FALSE)
            /\ mfut' = nextId
            /\ mpc' = "f_await_bak"
    /\ UNCHANGED <<mlinks, minst, mexc, mfatal, mnotes, bset, bseen, faults>>
    /\ MPutFrame

\* send_to_active_chats has returned: send_to_logging_chats up to its first bot.send_message
\* (the list config["logging_chat_ids"] is not empty)
LogStart ==
    /\ mnotes' = [mnotes EXCEPT !.active = @ + 1]
    /\ bset' = {} /\ bseen' = {1}
    /\ mpc' = "lcast"

\* send_to_logging_chats has returned, and with it the finally clause
LogEnd ==
    /\ mnotes' = [mnotes EXCEPT !.logging = @ + 1]
    /\ bset' = {} /\ bseen' = {}
    /\ mpc' = IF mexc THEN "raised_reply" ELSE "next"

\* the for statement of send_to_active_chats asks the set iterator for the next chat: the
\* iterator raises RuntimeError when the size of the set is not what it was when iter() was
\* called; it yields a chat it has not yielded yet; or it is exhausted, send_to_active_chats
\* returns and send_to_logging_chats starts.  A set of the same
\* size with other members may end the iteration early.
BcastNext(S0, seen) ==
    IF Cardinality(mem["active_chat_ids"]) # Cardinality(S0)
    THEN /\ mpc' = "raised_iter"
         /\ bset' = {} /\ bseen' = {}
         /\ UNCHANGED mnotes
    ELSE \/ /\ \E c \in mem["active_chat_ids"] \ seen : bseen' = seen \cup {c}
            /\ bset' = S0
            /\ mpc' = "bcast"
            /\ UNCHANGED mnotes
         \/ /\ mem["active_chat_ids"] \ seen = {} \/ mem["active_chat_ids"] # S0
            /\ LogStart

\* `await future` of the backup (its exception leaves the finally clause), then
\* send_to_active_chats up to its first bot.send_message
MAwaitBackup ==
    /\ Running
    /\ mpc = "f_await_bak"
    /\ Awaited(mfut)
    /\ IF fut[mfut] \in {"err", "cancelled"}
       THEN /\ mpc' = "raised_future"
            /\ UNCHANGED <<mnotes, bset, bseen>>
       ELSE BcastNext(mem["active_chat_ids"], {})
    /\ mfut' = 0
    /\ Drop(mfut)
    /\ UNCHANGED <<mlinks, minst, mexc, mfatal, faults>>
    /\ UNCHANGED <<queue, wpc, nextId>>
    /\ MPutFrame

\* bot.send_message of send_to_active_chats returned, or raised: the exception is printed, or
\* (its text holds "empty") send_to_active_chats returns at once; then the next chat
MBcast ==
    /\ Running
    /\ mpc = "bcast"
    /\ \/ /\ NoFault
          /\ BcastNext(bset, bseen)
       \/ /\ Fault
          /\ BcastNext(bset, bseen)
       \/ /\ Fault
          /\ LogStart
    /\ UNCHANGED <<mlinks, minst, mfut, mexc, mfatal>>
    /\ MQuiet

\* bot.send_message of send_to_logging_chats returned, or raised: the exception is printed,
\* or (its text holds "empty") send_to_logging_chats returns at once; then the next chat of
\* the list, or the end of the list
MLog ==
    /\ Running
    /\ mpc = "lcast"
    /\ \/ /\ NoFault \/ Fault
          /\ IF bseen = 1..NumLoggingChats
             THEN LogEnd
             ELSE /\ bseen' = bseen \cup {Cardinality(bseen) + 1}
                  /\ UNCHANGED <<mnotes, bset, mpc>>
       \/ /\ Fault
          /\ LogEnd
    /\ UNCHANGED <<mlinks, minst, mfut, mexc, mfatal>>
    /\ MQuiet

\* download_post_and_reply returned: the condition of `while download_inst and inst_domain in
\* text` with the local download_inst, and the next download_post_and_reply
MNext ==
    /\ Running
    /\ mpc = "next"
    /\ mlinks' = mlinks - 1
    /\ mpc' = IF minst /\ mlinks > 1 THEN "op" ELSE "done"
    /\ UNCHANGED <<minst, mfut, mexc, mfatal, mnotes, bset, bseen, faults>>
    /\ MQuiet

\* the message handler, /enable and /disable of other chats enqueued meanwhile, the workers
NextM ==
    \/ \E n \in 1..MaxLinks : MStart(n)
    \/ \E o \in {"ok", "error", "fatal"} : MOp(o)
    \/ MFatalReply
    \/ MAwaitSet
    \/ MAwaitBackup
    \/ MBcast
    \/ MLog
    \/ MNext
    \/ \E r \in Prefs, item \in Items : Add(r, item)
    \/ \E r \in Prefs, item \in Items : Discard(r, item)
    \/ \E r \in Res : WorkerGet(r) \/ WorkerRunMutation(r) \/ WorkerResolve(r)
    \/ \E r \in Flags : \/ WorkerRunBackup(r)
                        \/ DumpWrite(r) \/ DumpReplace(r) \/ DumpDirSync(r) \/ DumpFinally(r)

SpecM == Init /\ [][NextM]_vars

\* handle_message has returned or raised
MEnded == mpc \in {"done", "raised_reply", "raised_future", "raised_iter"}

\* ------------------------------------------- updates: bans, messages, the webhook
\* Telegram user ids: an administrator (config["admin_ids"]) and another user
AdminIds == {1}
Users == AdminIds \cup {1 + Cardinality(AdminIds)}

\* a check that takes nobody for an administrator
IsAdminNever(u) == FALSE

\* is_admin: user_id in config["admin_ids"]
is_admin(u) == u \in AdminIds

\* a check that lets banned authors through
EnsureNotBannedSkipped(u) == TRUE

\* ensure_not_banned_author: message.from_user.id not in banned_user_ids; replies "banned"
\* otherwise
ensure_not_banned_author(u) == u \notin banned

\* /ban_users and /unban_users with their arguments ("x" is not convertible to int)
BanCommands ==
    {[name |-> n, item |-> 0, args |-> as, admin |-> a] :
        n \in {"ban_users", "unban_users"},
        as \in {<<>>} \cup UNION {[1..k -> {ToString(u) : u \in Users} \cup {"x"}] :
                                       k \in 1..MaxArgs},
        a \in BOOLEAN}

BFrame == UNCHANGED <<bucket, mem, queue, wpc, cur, disk, tmp, loop, torn, crashed, faults, wtoken>>
          /\ UNCHANGED auxvars /\ UNCHANGED lvars /\ UNCHANGED mvars /\ UNCHANGED jvars

\* the body of `for arg in context.args` up to its first await that suspends: the replies
\* "arg_not_int", "arg_admin" and "no_need", or `future = await banned_user_ids.add(user_id)`
\* (discard for /unban_users, which does not test is_admin)
BanArgStep(rest, name, args) ==
    LET arg == Head(args)
        isInt == \E u \in Users : ToString(u) = arg
        user_id == CHOOSE u \in Users : ToString(u) = arg
    IN IF \/ ~isInt
          \/ name = "ban_users" /\ is_admin(user_id)
          \/ (name = "ban_users") = (user_id \in banned)
       THEN /\ Suspend(rest, Suspended("args", name, Tail(args), 0))
            /\ UNCHANGED <<bq, fut, nextId>>
       ELSE /\ nextId <= MaxIds
            /\ bq' = Append(bq, [id |-> nextId, item |-> user_id,
                                 kind |-> IF name = "ban_users" THEN "add" ELSE "discard"])
            /\ fut' = [fut EXCEPT ![nextId] = "pending"]
            /\ nextId' = nextId + 1
            /\ Suspend(rest, Suspended("await_mut", name, Tail(args), nextId))

\* ban_users / unban_users: ensure_admin, the "no_args" reply, the first iteration
BanStart(c) ==
    /\ Running
    /\ CanStart
    /\ started' = started + 1
    /\ IF ensure_admin(c) /\ c.args # <<>>
       THEN BanArgStep(handlers, c.name, c.args)
       ELSE UNCHANGED <<handlers, bq, fut, nextId>>
    /\ UNCHANGED <<banned, dl>>
    /\ BFrame

\* a suspended ban_users / unban_users goes on: after a reply, the next iteration or the end
\* of the loop; after `await future` of the mutation, `future = await
\* banned_user_ids.backup()`; after `await future` of the backup, the "success" reply
BanResume ==
  \E a \in BagToSet(handlers) :
    /\ Running
    /\ a.name \in {"ban_users", "unban_users"}
    /\ CASE a.pc = "args" ->
              IF a.args = <<>>
              THEN Return(Others(a)) /\ UNCHANGED <<bq, fut, nextId>>
              ELSE BanArgStep(Others(a), a.name, a.args)
         [] a.pc = "await_mut" ->
              /\ Awaited(a.fut)
              /\ nextId <= MaxIds
              /\ bq' = Append(bq, [id |-> nextId, item |-> 0, kind |-> "backup"])
              /\ fut' = [Released(fut, a.fut) EXCEPT ![nextId] = "pending"]
              /\ nextId' = nextId + 1
              /\ Suspend(Others(a), Suspended("await_bak", a.name, a.args, nextId))
         [] a.pc = "await_bak" ->
              /\ Awaited(a.fut)
              /\ Drop(a.fut)
              /\ Suspend(Others(a), Suspended("args", a.name, a.args, 0))
              /\ UNCHANGED <<bq, nextId>>
    /\ UNCHANGED <<started, banned, dl, wres>>
    /\ BFrame

\* the worker of banned_user_ids runs the oldest task of its queue and resolves its future
\* (the steps of a worker are those of Worker above)
BanWorker ==
    /\ Running
    /\ bq # <<>>
    /\ banned' = CASE Head(bq).kind = "add" -> banned \cup {Head(bq).item}
                   [] Head(bq).kind = "discard" -> banned \ {Head(bq).item}
                   [] OTHER -> banned
    /\ fut' = [fut EXCEPT ![Head(bq).id] = "ok"]
    /\ bq' = Tail(bq)
    /\ UNCHANGED <<nextId, dl, wres>>
    /\ UNCHANGED hvars
    /\ BFrame

\* check_message / mentioned: ensure_active_chat and ensure_not_banned_author, then
\* handle_message (the downloads it starts are those of SpecM and SpecJ)
check_message(chat, user) ==
    /\ Running
    /\ CanStart
    /\ started' = started + 1
    /\ dl' = (chat \in mem["active_chat_ids"] /\ ensure_not_banned_author(user))
    /\ UNCHANGED <<handlers, banned, bq, fut, nextId>>
    /\ BFrame

\* POST /webhook with the secret header hdr: with WEBHOOK_SECRET_TOKEN in the environment the
\* header is read and the comparison reads the global WEBHOOK_SECRET_TOKEN, which app.py
\* never binds: NameError, the server answers 500; without it the update goes to
\* application.process_update, which runs the handler, and the answer is 204
telegram_webhook(hdr) ==
    IF wtoken
    THEN /\ wres' = [hdr |-> hdr, status |-> 500, processed |-> FALSE]
         /\ UNCHANGED <<handlers, started, banned, bq, dl, fut, nextId>>
         /\ BFrame
    ELSE /\ wres' = [hdr |-> "unread", status |-> 204, processed |-> TRUE]
         /\ \/ \E c \in BanCommands : BanStart(c)
            \/ \E chat \in Items, user \in Users : check_message(chat, user)

\* a deployment behind the webhook, with or without a secret token, on local files
InitB ==
    /\ bucket = FALSE
    /\ \E firstRun \in BOOLEAN :
         disk = [r \in Res |-> IF firstRun THEN NoFile
                                ELSE IF r \in Prefs THEN PriorPrefFile ELSE PriorFlagFile]
    /\ mem = [r \in Res |-> IF r \in Prefs THEN PrefImport(disk[r]) ELSE FlagsImport(disk[r])]
    /\ lpc = [r \in Res |-> "built"]
    /\ lsrc = [r \in Res |-> NoSrc]
    /\ InitQueues
    /\ InitJobs
    /\ InitMsgs
    /\ InitUpdates
    /\ wtoken \in BOOLEAN

\* the requests, the suspended handlers, the worker of banned_user_ids
NextB ==
    \/ \E hdr \in {"match", "other", "absent"} : telegram_webhook(hdr)
    \/ BanResume
    \/ BanWorker

SpecB == InitB /\ [][NextB]_vars

\* the feature flags under which handle_message starts a job of each type
JFlags(t) == IF t = "short" THEN {"yt_shorts"} ELSE {"yt", "ytm"}

\* download_yt_and_reply has returned
JTerminal == jpc \in {"succeeded", "failed", "timed_out", "error", "raised", "returned"}

\* ================================================================ claims
\* the tasks of r that were enqueued and have not run yet, oldest first
Waiting(r) == (IF wpc[r] = "run" THEN <<cur[r]>> ELSE <<>>) \o queue[r]

\* C1: on every Resource the consumer runs the tasks in exactly the order in which they
\* were enqueued, whatever the callers do with their handles: by the counter embedded in
\* each task, every task still waiting is newer than the task run last and the waiting
\* tasks are taken oldest first.
C1_EnqueueOrder ==
    \A r \in Res :
        /\ \A i \in 1..Len(Waiting(r)) : Waiting(r)[i].id > lastRun[r].id
        /\ \A i \in 1..Len(Waiting(r)), j \in 1..Len(Waiting(r)) :
              i < j => Waiting(r)[i].id < Waiting(r)[j].id

C1_Witness ==
    \E r \in Res : /\ wpc[r] = "run"
                   /\ lastRun[r].id # 0
                   /\ lastRun[r].kind # cur[r].kind
                   /\ fut[lastRun[r].id] = "ok"

\* C2: at most one task of a Resource is in flight: a task taken from the queue stays the
\* only one until it has run and its handle is resolved.
C2_OneInFlight ==
    \A r \in Res :
        /\ Cardinality(inflight[r]) <= 1
        /\ inflight[r] = IF cur[r].id = 0 THEN {} ELSE {cur[r].id}
        /\ wpc[r] \in {"get", "wait"} => inflight[r] = {}

C2_Witness ==
    \E r \in Res : /\ inflight[r] # {}
                   /\ lastRun[r].id # 0
                   /\ lastRun[r].id \notin inflight[r]
                   /\ fut[lastRun[r].id] \in {"ok", "err"}

\* C3 (as stated): when the operation of a task raised, the consumer resolves the handle of
\* that task with the error, touches no other handle, and goes on to the next task.
C3_ErrorIsolated ==
    [][\A r \in Res :
         (wpc[r] = "err" /\ wpc'[r] # "err") =>
            /\ fut'[cur[r].id] = "err"
            /\ \A t \in TaskIds \ {cur[r].id} : fut'[t] = fut[t]
            /\ wpc'[r] = "get"]_vars

\* C4 (as stated): the consumer persists while the Resource lives, so no task of a live
\* Resource is ever left in the queue behind a consumer that has ended.
C4_ConsumerPersists ==
    \A r \in Res : (~torn[r] /\ queue[r] # <<>>) => wpc[r] # "dead"

\* C5 (as stated): once teardown has cancelled the consumer, the handle of every task
\* still in the queue is rejected with a cancellation.
C5_TeardownRejects ==
    \A r \in Res :
        wpc[r] = "cancelled" =>
            \A i \in 1..Len(queue[r]) : fut[queue[r][i].id] = "cancelled"

\* C6 (as stated): while a task of one Resource is inside its (slow or stuck) snapshot
\* write, the consumer of another Resource that has queued tasks can still take a step.
C6_Independent ==
    \A r1 \in Res, r2 \in Res :
        (r1 # r2 /\ ~crashed /\ InWrite(r1) /\ wpc[r2] = "get" /\ queue[r2] # <<>>)
            => ENABLED WorkerGet(r2)

\* C7: once the handle of set(name, value) has resolved, features[name] reads as value
\* until a later set of the same name is applied, whatever the state of any backup.
C7_SetVisible ==
    \A r \in Flags, k \in Features :
        (lastSet[k].id # 0 /\ fut[lastSet[k].id] = "ok") => mem[r][k] = lastSet[k].val

C7_Witness ==
    \E r \in Flags, k \in Features :
        /\ lastSet[k].id # 0 /\ fut[lastSet[k].id] = "ok"
        /\ lastSet[k].val = FALSE
        /\ disk[r] # JsonDump(mem[r])
        /\ lastRun[r].kind = "set" /\ cur[r] = NoTask /\ queue[r] = <<>>

\* C8 (as stated): when the handle of a backup has resolved, the persisted snapshot is the
\* in-memory state the backup task found, which holds every mutation enqueued before it.
C8_BackupReflectsMutations ==
    \A r \in Res :
        (lastRun[r].kind = "backup" /\ fut[lastRun[r].id] = "ok")
            => disk[r] = Serialize(r, mem[r])

Quiescent ==
    /\ handlers = EmptyBag
    /\ \A r \in Res : queue[r] = <<>> /\ wpc[r] \in {"none", "get", "wait"}

\* C9: when every handler has gone through mutate, await, backup, await, no snapshot
\* write failed and the queues are empty, the persisted snapshot of every Resource the
\* handlers used equals its in-memory state.
C9_EventuallyConsistent ==
    (Quiescent /\ faults = 0) =>
        \A r \in Res : lastRun[r].id # 0 => disk[r] = Serialize(r, mem[r])

C9_Witness ==
    /\ Quiescent /\ faults = 0
    /\ started = NumHandlers
    /\ \E r \in Res : /\ lastRun[r].id = 2 * NumHandlers
                      /\ lastRun[r].kind = "backup"
                      /\ disk[r] = Serialize(r, mem[r])

\* C10 (as stated): during a local-filesystem snapshot write, and after a crash in it, the
\* destination holds the complete previous snapshot or the complete new one.
C10_AllOrNothing ==
    \A r \in Res :
        (~bucket /\ InWrite(r)) => disk[r] \in {wprev[r], WriteText(r)}

\* C11 (as stated): when a step of the local-filesystem write of async_dump has failed, the
\* temporary file is gone and the destination holds what it held when the write began.
C11_FailureLeavesDestination ==
    \A r \in Flags :
        (~bucket /\ wpc[r] = "err" /\ cur[r].kind = "backup")
            => (tmp[r] = NoFile /\ disk[r] = wprev[r])

\* C12: a resource constructed from the snapshot that a backup of a state wrote holds that
\* state again, for every set of ids and every flag map.
C12_RoundTrip ==
    \A r \in Res :
        (lpc[r] \in {"built", "raised"} /\ lsrc[r].from = "backup")
            => (lpc[r] = "built" /\ mem[r] = lsrc[r].state)

C12_Witness ==
    /\ \A r \in Res : lpc[r] = "built" /\ lsrc[r].from = "backup"
    /\ \E r \in Prefs : lsrc[r].state = {} /\ mem[r] = {}
    /\ \E r \in Flags : lsrc[r].state = [k \in Features |-> FALSE] /\ mem[r] = lsrc[r].state

\* C13 (as stated): after a load of a flag snapshot that holds a non-boolean value for a
\* known feature name, every flag has its default.
C13_NonBoolKeepsDefaults ==
    \A r \in Flags :
        (/\ lpc[r] \in {"built", "raised"}
         /\ JsonLoad(disk[r]).ok
         /\ UpdateRaises(DefaultFeatures, JsonLoad(disk[r]).pairs))
            => mem[r] = DefaultFeatures

\* C14 (as stated): constructing a resource from missing or malformed backup data never
\* raises.
C14_ConstructionNeverRaises == \A r \in Res : lpc[r] # "raised"

\* C15: the attempt counter never exceeds 3 and at most 3 worker processes are started; a job
\* whose worker was still alive at the timeout on every attempt, with no other failure (process
\* start, heartbeat, internal error), has started exactly 3 processes when it returns, and it
\* returns through the timeout-exhausted handler.
C15_ThreeAttempts ==
    /\ try_count <= MAX_TRY_COUNT
    /\ Len(procs) <= MAX_TRY_COUNT
    /\ (JTerminal /\ faults = 0 /\ procs # <<>> /\ \A i \in 1..Len(procs) : procs[i].timedout)
       => (Len(procs) = MAX_TRY_COUNT /\ try_count = MAX_TRY_COUNT /\ jpc = "timed_out")

C15_Witness ==
    /\ jpc = "timed_out" /\ faults = 0
    /\ Len(procs) = MAX_TRY_COUNT
    /\ \A i \in 1..Len(procs) : procs[i].timedout

\* C16: a job that returned through the timeout-exhausted handler has disabled a feature flag
\* under which it was started.
C16_TimeoutDisablesFlag ==
    jpc = "timed_out" => \E k \in JFlags(jtype) : mem["feature_state"][k] = FALSE

\* C17: a job whose first worker was alive at the timeout and whose second worker exited with
\* code 0, with no other failure, returns through the success path after exactly 2 attempts;
\* the only message it sent is the media reply, nothing was enqueued on the flag map and the
\* flags are those that were loaded.
C17_SecondAttemptSucceeds ==
    (/\ JTerminal /\ faults = 0
     /\ Len(procs) >= 2
     /\ procs[1].timedout
     /\ ~procs[2].timedout /\ procs[2].code = 0)
    => /\ jpc = "succeeded"
       /\ try_count = 2 /\ Len(procs) = 2
       /\ jout = <<"reply_media">>
       /\ nextId = 1 /\ queue["feature_state"] = <<>>
       /\ mem["feature_state"] = FlagsImport(disk["feature_state"])

C17_Witness ==
    /\ jpc = "succeeded" /\ faults = 0
    /\ Len(procs) = 2
    /\ procs[1].timedout /\ procs[1].st = "reaped"
    /\ ~procs[2].timedout /\ procs[2].code = 0 /\ procs[2].st = "reaped"

\* C18: a worker process that exited before the timeout is the last one of its job (every
\* process followed by another one was alive at its timeout); with no other failure, exit code
\* 0 ends in the success path with the media reply and a nonzero exit code ends in the failed
\* outcome with the exit-code reply to the requester.
C18_ExitNeverRetried ==
    /\ \A i \in 1..(Len(procs) - 1) : procs[i].timedout
    /\ (JTerminal /\ faults = 0 /\ procs # <<>> /\ ~LastProc.timedout)
       => IF LastProc.code = 0
          THEN jpc = "succeeded" /\ jout = <<"reply_media">>
          ELSE jpc = "failed" /\ jout = <<"reply_exitcode", "log_exitcode">>

C18_Witness ==
    /\ jpc = "failed" /\ faults = 0
    /\ Len(procs) = 1
    /\ ~LastProc.timedout /\ LastProc.code = 1 /\ LastProc.st = "reaped"

\* C19: at most one worker process of the job is alive, and every process but the newest has
\* been terminated and joined.
C19_OneProcessAlive ==
    /\ Cardinality({i \in 1..Len(procs) : procs[i].st = "alive"}) <= 1
    /\ \A i \in 1..(Len(procs) - 1) : procs[i].st = "reaped"

C19_Witness ==
    /\ Len(procs) = 2
    /\ procs[1].timedout /\ procs[1].st = "reaped"
    /\ procs[2].st = "alive"

\* C20: when the supervisor has returned, by whichever path, every worker process it started
\* has been terminated and joined.
C20_AllReaped ==
    JTerminal => \A i \in 1..Len(procs) : procs[i].st = "reaped"

C20_Witness ==
    /\ jpc = "error" /\ faults > 0
    /\ procs # <<>>
    /\ \A i \in 1..Len(procs) : procs[i].st = "reaped"

\* messages of download_yt_and_reply that go to the requester
ReplyMsgs == {"reply_timeout", "reply_error", "reply_exitcode", "reply_media", "reply_retry"}
NReports == Cardinality({i \in 1..Len(jout) : jout[i] \in ReplyMsgs})

\* C21: when the supervisor has returned, by whichever path, the working directory of the job
\* does not exist.
C21_DirRemoved ==
    JTerminal => ~dir

C21_Witness ==
    /\ jpc = "raised" /\ rtask = "failed"
    /\ LastProc.code = 0 /\ ~LastProc.timedout
    /\ ~dir

C23_Terminates ==
    (jpc # "none") ~> JTerminal

C23_Witness ==
    /\ JTerminal
    /\ try_count = MAX_TRY_COUNT
    /\ \A i \in 1..Len(procs) : procs[i].timedout /\ procs[i].code = 1
    /\ hb = "done"

\* C26: once what the heartbeat watches has finished, the heartbeat invokes its action no
\* more (the invocation in progress is the last one) and the next evaluation of its loop
\* condition ends it.
C26_HeartbeatStops ==
    [][~WatchedAlive =>
         /\ hbn' <= hbn
         /\ (hb \in {"start", "sleep"} /\ hb' # hb) => hb' = "done"]_vars

C26_Witness ==
    /\ jpc = "await_hb"
    /\ LastProc.st = "reaped"
    /\ hb = "done" /\ hbn >= 1

\* C27 (as stated): a heartbeat that has ended has invoked its action at least once.
C27_ActsAtLeastOnce ==
    hb = "done" => hbn >= 1

\* C28: the in-memory state of a Resource changes only in the step in which its own consumer
\* executes an add, discard or set task: not when a task is enqueued, not when a backup task
\* runs, not in any step of another Resource.
C28_OnlyMutationTasksChange ==
    [][\A r \in Res :
         mem'[r] # mem[r] =>
            /\ loop = r /\ wpc[r] = "run"
            /\ cur[r].kind \in {"add", "discard", "set"}]_vars

C28_Witness ==
    /\ lastSet["inst"].id = 1
    /\ lastRun["feature_state"] = [id |-> 2, kind |-> "backup"]
    /\ mem["feature_state"]["inst"] = lastSet["inst"].val
    /\ mem["feature_state"] # FlagsImport(wprev["feature_state"])

\* the set task that disabled inst was applied and its handle has resolved
InstDisabledResolved ==
    /\ lastSet["inst"].id # 0 /\ ~lastSet["inst"].val
    /\ lastSet["inst"].id \notin inflight["feature_state"]
    /\ ~mem["feature_state"]["inst"]

\* C24 (as stated): the notice is broadcast only after the set that disabled inst and the
\* backup that followed it have run and their handles have resolved; and when the message
\* handler has ended, with no failure of storage or delivery, every fatal exception was
\* followed by exactly one broadcast to the active chats and one to the logging chats.
C24_DegradationOnce ==
    /\ mpc = "bcast" =>
          /\ InstDisabledResolved
          /\ lastRun["feature_state"].kind = "backup"
          /\ lastRun["feature_state"].id > lastSet["inst"].id
          /\ inflight["feature_state"] = {}
    /\ (MEnded /\ faults = 0) => mnotes = [active |-> mfatal, logging |-> mfatal]

\* C25 (as stated): no exception leaves send_to_active_chats.
C25_BroadcastNeverRaises ==
    mpc # "raised_iter"

\* C29 (as stated): no download_post_and_reply starts once the set that disabled inst was
\* applied and its handle has resolved, while the flag is disabled.
C29_NoDownloadWhenDisabled ==
    [][(mpc' = "op" /\ mpc # "op") => ~InstDisabledResolved]_vars

\* C30: when handle_message has ended after an AbortDownloadException, the inst flag is
\* disabled in memory and a backup task enqueued after that set has run, also when the reply
\* to the requester raised; when that reply was the only failure, the persisted flag map is
\* the one in memory.
C30_DegradedDespiteReplyFailure ==
    (MEnded /\ mfatal > 0) =>
        /\ ~mem["feature_state"]["inst"]
        /\ lastRun["feature_state"].kind = "backup"
        /\ lastRun["feature_state"].id > lastSet["inst"].id
        /\ (mexc /\ faults = 1) => disk["feature_state"] = JsonDump(mem["feature_state"])

C30_Witness ==
    /\ mpc = "raised_reply" /\ mexc
    /\ mfatal = 1
    /\ ~mem["feature_state"]["inst"]
    /\ disk["feature_state"] = JsonDump(mem["feature_state"])
    /\ mnotes.logging = 1

\* a step in which a handler with the locals a left / one with the locals b arrived at an await
Gone(a) == CopiesIn(a, handlers') < CopiesIn(a, handlers)
Arrived(b) == CopiesIn(b, handlers') > CopiesIn(b, handlers)

\* C31: a command handler comes to await a backup only in the step in which the future of
\* its mutation has resolved, and that step puts a new task, a backup, at the end of the
\* queue of the same resource; it comes to its success reply only when the future of that
\* backup has resolved.
C31_ReplyAfterBoth ==
    [][\A b \in BagToSet(handlers') :
         /\ (Arrived(b) /\ b.pc = "await_bak") =>
               \E a \in BagToSet(handlers) :
                  /\ Gone(a) /\ a.pc = "await_mut" /\ a.name = b.name
                  /\ fut[a.fut] = "ok"
                  /\ b.fut = nextId /\ b.fut # a.fut
                  /\ fut'[b.fut] = "pending"
                  /\ queue'[HRes(a)] = Append(queue[HRes(a)], queue'[HRes(a)][Len(queue'[HRes(a)])])
                  /\ queue'[HRes(a)][Len(queue'[HRes(a)])].id = nextId
                  /\ queue'[HRes(a)][Len(queue'[HRes(a)])].kind = "backup"
         /\ (Arrived(b) /\ b.pc = "reply") =>
               \E a \in BagToSet(handlers) :
                  /\ Gone(a) /\ a.pc = "await_bak" /\ a.name = b.name
                  /\ fut[a.fut] = "ok"]_vars

C31_Witness ==
    \E a \in BagToSet(handlers) :
       /\ a.pc = "reply" /\ a.name = "disable_features"
       /\ ~mem["feature_state"]["inst"]
       /\ lastRun["feature_state"].kind = "backup"
       /\ disk["feature_state"] = JsonDump(mem["feature_state"])

\* C32: the keys of FeatureState.features are exactly the compiled-in feature names and
\* every value is a boolean, after the load of a snapshot that has another key and after
\* any enable_features / disable_features command, valid argument or not.
C32_KeySetFixed ==
    /\ DOMAIN mem["feature_state"] = Features
    /\ \A k \in Features : mem["feature_state"][k] \in BOOLEAN

C32_Witness ==
    /\ disk["feature_state"] = PriorFlagFile
    /\ lastSet["inst"].id # 0 /\ lastSet["inst"].val
    /\ mem["feature_state"] = DefaultFeatures
    /\ \E a \in BagToSet(handlers) : a.pc = "args" /\ a.name = "disable_features"

\* C33: the step in which the handler of a command whose author is not an administrator
\* runs enqueues nothing, creates no future and no worker, changes neither the chat-ID set
\* nor the flags, and leaves no handler waiting: the handler has replied and returned.
C33_NonAdminChangesNothing ==
    [][\A c \in {d \in Commands : ~d.admin} :
         (started' = started + 1 /\ (HChatStart(c) \/ HFeatureStart(c))) =>
             UNCHANGED <<mem, queue, wpc, fut, nextId, disk, handlers>>]_vars

C33_Witness ==
    /\ started = NumHandlers /\ handlers = EmptyBag
    /\ nextId = 1 /\ \A r \in Res : queue[r] = <<>> /\ wpc[r] = "none"
    /\ mem["active_chat_ids"] = {} /\ mem["feature_state"] = DefaultFeatures

C36_HeartbeatFailureHarmless ==
    (JTerminal /\ hb = "failed" /\ faults = 1 /\ procs # <<>>) =>
        /\ (~LastProc.timedout /\ LastProc.code = 0) => rtask # "none"
        /\ LastProc.timedout => Len(procs) = MAX_TRY_COUNT

\* C37 (as stated): when a broadcast returns, every chat of the active set it iterated, and
\* every chat of the logging list, has had its delivery attempt.
C37_AllRecipientsAttempted ==
    [][/\ (mpc = "bcast" /\ mnotes'.active > mnotes.active) => bset \subseteq bseen
       /\ mnotes'.logging > mnotes.logging => bseen = 1..NumLoggingChats]_vars

\* C38 (as stated): an enable_features / disable_features handler that has sent its success
\* reply goes on, after the two notifications, to the next argument of the command.
C38_FeatureCommandCompletes ==
    [][\A a \in BagToSet(handlers) :
         (Gone(a) /\ a.pc = "reply" /\ a.name \in FeatureCmds) =>
             \E b \in BagToSet(handlers') : Arrived(b) /\ b.pc = "args" /\ b.name = a.name]_vars

C39_AdminsNeverBanned ==
    banned \cap AdminIds = {}

C39_Witness ==
    /\ banned # {}
    /\ \E a \in BagToSet(handlers) : a.name = "ban_users" /\ a.pc = "args"
    /\ bq = <<>>

\* C40 (as stated): with a secret token configured, a request whose secret header does not
\* match was answered 401 and its update was not processed, and a request whose header
\* matches was answered 204 and its update was processed.
C40_SecretChecked ==
    (wtoken /\ wres.hdr # "none") =>
        IF wres.hdr = "match"
        THEN wres.status = 204 /\ wres.processed
        ELSE wres.status = 401 /\ ~wres.processed

====
